---- MODULE Spec2Model ----
(***************************************************************************)
(* Model of the MITRE ATT&CK layer generators scripts/generate_layers.py   *)
(* (all detections) and scripts/network_layer.py (network platforms only). *)
(* Text is a sequence of one-character strings, so that lower(), strip(),  *)
(* the technique regular expression and sorted() are computed character by *)
(* character as Python computes them.                                      *)
(***************************************************************************)
EXTENDS Integers, Sequences, FiniteSets, TLC

----------------------------------------------------------------------------
(* Characters and the string methods the scripts call.                     *)

UpperLetters == <<"A", "B", "C", "D", "E", "F", "G", "H", "I", "J", "K", "L", "M", "N", "O", "P", "Q", "R", "S", "T", "U", "V", "W", "X", "Y", "Z">>
LowerLetters == <<"a", "b", "c", "d", "e", "f", "g", "h", "i", "j", "k", "l", "m", "n", "o", "p", "q", "r", "s", "t", "u", "v", "w", "x", "y", "z">>
DigitChars == {"0", "1", "2", "3", "4", "5", "6", "7", "8", "9"}
Whitespace == {" ", "\t", "\n", "\r"}

\* The characters of the model in code point order (what < on str compares).
CodeOrder == <<"\t", "\n", "\r", " ", "#", "'", ",", "-", ".", "/", "0", "1", "2", "3", "4", "5", "6", "7", "8", "9", ":", ";", "=", "A", "B", "C", "D", "E", "F", "G", "H", "I", "J", "K", "L", "M", "N", "O", "P", "Q", "R", "S", "T", "U", "V", "W", "X", "Y", "Z", "[", "]", "_", "a", "b", "c", "d", "e", "f", "g", "h", "i", "j", "k", "l", "m", "n", "o", "p", "q", "r", "s", "t", "u", "v", "w", "x", "y", "z", "{", "}">>

Range(s) == {s[i] : i \in 1..Len(s)}
IndexOf(c, s) == CHOOSE i \in 1..Len(s) : s[i] = c
Ord(c) == IndexOf(c, CodeOrder)

lower_char(c) == IF c \in Range(UpperLetters) THEN LowerLetters[IndexOf(c, UpperLetters)] ELSE c
upper_char(c) == IF c \in Range(LowerLetters) THEN UpperLetters[IndexOf(c, LowerLetters)] ELSE c
lower(s) == [i \in 1..Len(s) |-> lower_char(s[i])]
upper(s) == [i \in 1..Len(s) |-> upper_char(s[i])]

\* str.strip(): leading and trailing whitespace removed.
strip(s) ==
    LET keep == {i \in 1..Len(s) : s[i] \notin Whitespace}
    IN IF keep = {} THEN <<>>
       ELSE SubSeq(s, CHOOSE i \in keep : \A j \in keep : i <= j,
                      CHOOSE i \in keep : \A j \in keep : j <= i)

\* str.replace(c, ""): every occurrence of the character c removed.
remove_char(s, c) == SelectSeq(s, LAMBDA x : x # c)

endswith(s, suf) ==
    /\ Len(suf) <= Len(s)
    /\ SubSeq(s, Len(s) - Len(suf) + 1, Len(s)) = suf

\* a < b on str: the first differing code point decides, a proper prefix is smaller.
StrLess(a, b) ==
    LET n == IF Len(a) < Len(b) THEN Len(a) ELSE Len(b)
        diff == {i \in 1..n : a[i] # b[i]}
    IN IF diff = {} THEN Len(a) < Len(b)
       ELSE LET i == CHOOSE k \in diff : \A j \in diff : k <= j
            IN Ord(a[i]) < Ord(b[i])

\* sorted(S) of a set of str.
RECURSIVE sorted(_)
sorted(S) ==
    IF S = {} THEN <<>>
    ELSE LET m == CHOOSE x \in S : \A y \in S : x = y \/ StrLess(x, y)
         IN <<m>> \o sorted(S \ {m})

\* str(n) of a non-negative int.
DigitSeq == <<"0", "1", "2", "3", "4", "5", "6", "7", "8", "9">>
RECURSIVE str(_)
str(n) == IF n < 10 THEN <<DigitSeq[n + 1]>> ELSE str(n \div 10) \o <<DigitSeq[(n % 10) + 1]>>

\* sep.join(items)
RECURSIVE join(_, _)
join(sep, items) ==
    IF items = <<>> THEN <<>>
    ELSE IF Len(items) = 1 THEN items[1]
    ELSE items[1] \o sep \o join(sep, Tail(items))

----------------------------------------------------------------------------
(* TECHNIQUE_RE = \bT\d{4}(?:\.\d{3})?\b with re.IGNORECASE, and findall.  *)

IsWordChar(c) == c \in Range(UpperLetters) \cup Range(LowerLetters) \cup DigitChars \cup {"_"}

AllDigits(s, from, to) == to <= Len(s) /\ \A k \in from..to : s[k] \in DigitChars

\* \b after the word character at position k: the end, or a non-word character.
BoundaryAfter(s, k) == k = Len(s) \/ ~IsWordChar(s[k + 1])

\* Length of the match of TECHNIQUE_RE starting at position i, 0 if none.
\* The optional group is tried first (greedy) and given up when the final \b fails.
TECHNIQUE_RE(s, i) ==
    IF /\ (i = 1 \/ ~IsWordChar(s[i - 1]))
       /\ s[i] \in {"T", "t"}
       /\ AllDigits(s, i + 1, i + 4)
    THEN IF /\ i + 8 <= Len(s)
            /\ s[i + 5] = "."
            /\ AllDigits(s, i + 6, i + 8)
            /\ BoundaryAfter(s, i + 8)
         THEN 9
         ELSE IF BoundaryAfter(s, i + 4) THEN 5 ELSE 0
    ELSE 0

RECURSIVE findall_from(_, _)
findall_from(s, i) ==
    IF i > Len(s) THEN <<>>
    ELSE LET n == TECHNIQUE_RE(s, i)
         IN IF n > 0 THEN <<SubSeq(s, i, i + n - 1)>> \o findall_from(s, i + n)
            ELSE findall_from(s, i + 1)

findall(s) == findall_from(s, 1)

----------------------------------------------------------------------------
(* Python values as yaml.safe_load returns them.  A dict is a function     *)
(* from its keys; a load that raises is the value Raises.                  *)

Str(s) == [t |-> "str", v |-> s]
List(items) == [t |-> "list", v |-> items]
Num(n) == [t |-> "int", v |-> n]
Dict(fields) == [t |-> "dict", v |-> fields]
None == [t |-> "none"]
Raises == [t |-> "error"]

\* Truth value of an Optional[dict] / Optional[str]: None and the empty one are false.
truthy(x) ==
    CASE x.t = "none" -> FALSE
      [] x.t = "dict" -> DOMAIN x.v # {}
      [] x.t = "str" -> x.v # <<>>
      [] x.t = "list" -> x.v # <<>>
      [] OTHER -> TRUE

SEVERITY_KEYS == <<"Severity", "severity">>
TECHNIQUE_KEYS == <<"MitreTechniques">>
DefaultScore == 50
MaxExamples == 5

\* generate_layers.py: the keys are capitalised.
GL_SEVERITY_TO_SCORE ==
    << <<<<"S", "e", "v", "0">>, 100>>, <<<<"S", "e", "v", "1">>, 90>>, <<<<"S", "e", "v", "2">>, 70>>, <<<<"S", "e", "v", "3">>, 40>>, <<<<"S", "e", "v", "4">>, 20>> >>

\* network_layer.py: the keys are lower case.
NL_SEVERITY_TO_SCORE ==
    << <<<<"s", "e", "v", "0">>, 100>>, <<<<"s", "e", "v", "1">>, 90>>, <<<<"s", "e", "v", "2">>, 70>>, <<<<"s", "e", "v", "3">>, 40>>, <<<<"s", "e", "v", "4">>, 20>> >>

\* dict.get(key, default) on a table of <<key, value>> pairs.
dict_get(table, key, default) ==
    IF \E i \in 1..Len(table) : table[i][1] = key
    THEN table[CHOOSE i \in 1..Len(table) : table[i][1] = key][2]
    ELSE default

\* read_yaml: f.read() is outside the try, so bytes that are not UTF-8 make the
\* call raise; otherwise (obj if it is a dict else None, raw), and a load that
\* raises gives None.
read_yaml(content) ==
    IF ~content.utf8 THEN Raises
    ELSE IF content.loaded.t = "dict" THEN [t |-> "tuple", obj |-> content.loaded, raw |-> content.raw]
    ELSE [t |-> "tuple", obj |-> None, raw |-> content.raw]

\* get_first_str / get_first_string: the first key whose value is a str that is
\* not blank, stripped.
get_first_str(d, keys) ==
    LET hits == {i \in 1..Len(keys) :
                    /\ keys[i] \in DOMAIN d.v
                    /\ d.v[keys[i]].t = "str"
                    /\ strip(d.v[keys[i]].v) # <<>>}
    IN IF hits = {} THEN None
       ELSE Str(strip(d.v[keys[CHOOSE i \in hits : \A j \in hits : i <= j]].v))

get_severity(d) ==
    IF ~truthy(d) THEN <<"u", "n", "k", "n", "o", "w", "n">>
    ELSE LET s == get_first_str(d, SEVERITY_KEYS)
         IN IF truthy(s) THEN lower(s.v) ELSE <<"u", "n", "k", "n", "o", "w", "n">>

\* The matches of every str item of a list, in order.
RECURSIVE findall_items(_)
findall_items(items) ==
    IF items = <<>> THEN <<>>
    ELSE (IF Head(items).t = "str" THEN findall(Head(items).v) ELSE <<>>)
         \o findall_items(Tail(items))

normalize_techniques(value) ==
    LET techs == CASE value.t = "str" -> findall(value.v)
                   [] value.t = "list" -> findall_items(value.v)
                   [] OTHER -> <<>>
    IN sorted({upper(techs[i]) : i \in 1..Len(techs)})

scan_raw(raw_text) ==
    LET found == findall(raw_text)
    IN sorted({upper(found[i]) : i \in 1..Len(found)})

\* A faulty get_techniques: the IDs of the raw text are added to those of the field.
get_techniques_merge(d, raw_text) ==
    LET found == {i \in 1..Len(TECHNIQUE_KEYS) : truthy(d) /\ TECHNIQUE_KEYS[i] \in DOMAIN d.v}
        field == UNION {Range(normalize_techniques(d.v[TECHNIQUE_KEYS[i]])) : i \in found}
    IN sorted(field \cup Range(scan_raw(raw_text)))

get_techniques(d, raw_text) ==
    LET hits == {i \in 1..Len(TECHNIQUE_KEYS) :
                    /\ truthy(d)
                    /\ TECHNIQUE_KEYS[i] \in DOMAIN d.v
                    /\ normalize_techniques(d.v[TECHNIQUE_KEYS[i]]) # <<>>}
    IN IF hits # {}
       THEN normalize_techniques(d.v[TECHNIQUE_KEYS[CHOOSE i \in hits : \A j \in hits : i <= j]])
       ELSE scan_raw(raw_text)

\* generate_layers.py
severity_score(sev) == dict_get(GL_SEVERITY_TO_SCORE, lower(sev), DefaultScore)

\* network_layer.py
severity_to_score(severity) == dict_get(NL_SEVERITY_TO_SCORE, lower(severity), DefaultScore)

----------------------------------------------------------------------------
(* The rule files of the model: whether the bytes decode as UTF-8, the raw *)
(* text and what yaml.safe_load(raw) is.  The last file ends with the byte *)
(* 0xE9 after "caf": raw is the text before it, which is never obtained.   *)

Contents == <<
    [utf8 |-> TRUE,
     raw |-> <<"S", "e", "v", "e", "r", "i", "t", "y", ":", " ", "S", "e", "v", "1", "\n", "M", "i", "t", "r", "e", "T", "e", "c", "h", "n", "i", "q", "u", "e", "s", ":", " ", "[", "T", "1", "0", "5", "9", ",", " ", "T", "1", "1", "1", "0", ".", "0", "0", "1", "]", "\n">>,
     loaded |-> Dict([Severity |-> Str(<<"S", "e", "v", "1">>),
                      MitreTechniques |-> List(<<Str(<<"T", "1", "0", "5", "9">>), Str(<<"T", "1", "1", "1", "0", ".", "0", "0", "1">>)>>)])],
    [utf8 |-> TRUE,
     raw |-> <<"S", "e", "v", "e", "r", "i", "t", "y", ":", " ", "S", "e", "v", "0", "\n", "M", "i", "t", "r", "e", "T", "e", "c", "h", "n", "i", "q", "u", "e", "s", ":", " ", "T", "1", "0", "5", "9", "\n">>,
     loaded |-> Dict([Severity |-> Str(<<"S", "e", "v", "0">>), MitreTechniques |-> Str(<<"T", "1", "0", "5", "9">>)])],
    [utf8 |-> TRUE,
     raw |-> <<"s", "e", "v", "e", "r", "i", "t", "y", ":", " ", "S", "E", "V", "2", "\n", "M", "i", "t", "r", "e", "T", "e", "c", "h", "n", "i", "q", "u", "e", "s", ":", " ", "[", "t", "1", "0", "5", "9", ",", " ", "T", "1", "0", "5", "9", "]", "\n", "#", " ", "s", "e", "e", " ", "T", "1", "0", "0", "3", "\n">>,
     loaded |-> Dict([severity |-> Str(<<"S", "E", "V", "2">>),
                      MitreTechniques |-> List(<<Str(<<"t", "1", "0", "5", "9">>), Str(<<"T", "1", "0", "5", "9">>)>>)])],
    [utf8 |-> TRUE,
     raw |-> <<"S", "e", "v", "e", "r", "i", "t", "y", ":", " ", "S", "e", "v", "4", "\n", "T", "a", "c", "t", "i", "c", ":", " ", "T", "1", "0", "5", "9", " ", "e", "x", "e", "c", "\n">>,
     loaded |-> Dict([Severity |-> Str(<<"S", "e", "v", "4">>), Tactic |-> Str(<<"T", "1", "0", "5", "9", " ", "e", "x", "e", "c">>)])],
    [utf8 |-> TRUE,
     raw |-> <<"S", "e", "v", "e", "r", "i", "t", "y", ":", " ", "S", "e", "v", "0", "\n", "x", ":", " ", "[", "T", "1", "0", "5", "9", "\n">>,
     loaded |-> Raises],
    [utf8 |-> TRUE,
     raw |-> <<"S", "e", "v", "e", "r", "i", "t", "y", ":", " ", "H", "i", "g", "h", "\n", "M", "i", "t", "r", "e", "T", "e", "c", "h", "n", "i", "q", "u", "e", "s", ":", " ", "[", "T", "1", "0", "5", "9", "]", "\n">>,
     loaded |-> Dict([Severity |-> Str(<<"H", "i", "g", "h">>), MitreTechniques |-> List(<<Str(<<"T", "1", "0", "5", "9">>)>>)])],
    [utf8 |-> TRUE,
     raw |-> <<"S", "e", "v", "e", "r", "i", "t", "y", ":", " ", "2", "\n", "s", "e", "v", "e", "r", "i", "t", "y", ":", " ", "'", " ", "s", "e", "v", "1", " ", "'", "\n", "M", "i", "t", "r", "e", "T", "e", "c", "h", "n", "i", "q", "u", "e", "s", ":", " ", "[", "T", "1", "0", "5", "9", ".", "0", "0", "1", "2", ",", " ", "7", "]", "\n">>,
     loaded |-> Dict([Severity |-> Num(2), severity |-> Str(<<" ", "s", "e", "v", "1", " ">>),
                      MitreTechniques |-> List(<<Str(<<"T", "1", "0", "5", "9", ".", "0", "0", "1", "2">>), Num(7)>>)])],
    [utf8 |-> TRUE,
     raw |-> <<"n", "o", "t", "e", " ", "T", "1", "0", "0", "3", " ", "t", "w", "i", "c", "e", " ", "T", "1", "0", "0", "3", " ", "a", "n", "d", " ", "T", "1", "0", "0", "3", ".", "0", "0", "2", "\n">>,
     loaded |-> Str(<<"n", "o", "t", "e", " ", "T", "1", "0", "0", "3", " ", "t", "w", "i", "c", "e", " ", "T", "1", "0", "0", "3", " ", "a", "n", "d", " ", "T", "1", "0", "0", "3", ".", "0", "0", "2">>)],
    [utf8 |-> TRUE,
     raw |-> <<"S", "e", "v", "e", "r", "i", "t", "y", ":", " ", "S", "e", "v", "3", "\n", "M", "i", "t", "r", "e", "T", "e", "c", "h", "n", "i", "q", "u", "e", "s", ":", " ", "[", "]", "\n", "#", " ", "T", "1", "0", "0", "3", " ", "T", "1", "0", "0", "3", ".", "0", "0", "2", " ", "T", "1", "0", "0", "3", "\n">>,
     loaded |-> Dict([Severity |-> Str(<<"S", "e", "v", "3">>), MitreTechniques |-> List(<<>>)])],
    [utf8 |-> TRUE,
     raw |-> <<"S", "e", "v", "e", "r", "i", "t", "y", ":", " ", "S", "e", "v", "1", "\n", "D", "e", "s", "c", "r", "i", "p", "t", "i", "o", "n", ":", " ", "T", "1", "0", "5", " ", "T", "1", "0", "5", "9", "1", " ", "x", "T", "1", "0", "5", "9", "\n">>,
     loaded |-> Dict([Severity |-> Str(<<"S", "e", "v", "1">>), Description |-> Str(<<"T", "1", "0", "5", " ", "T", "1", "0", "5", "9", "1", " ", "x", "T", "1", "0", "5", "9">>)])],
    [utf8 |-> TRUE,
     raw |-> <<"-", " ", "T", "1", "0", "5", "\n", "-", " ", "S", "e", "v", "0", "\n">>,
     loaded |-> List(<<Str(<<"T", "1", "0", "5">>), Str(<<"S", "e", "v", "0">>)>>)],
    [utf8 |-> FALSE,
     raw |-> <<"S", "e", "v", "e", "r", "i", "t", "y", ":", " ", "S", "e", "v", "1", "\n", "M", "i", "t", "r", "e", "T", "e", "c", "h", "n", "i", "q", "u", "e", "s", ":", " ", "[", "T", "1", "0", "5", "9", "]", "\n", "#", " ", "c", "a", "f">>,
     loaded |-> Raises]
>>

----------------------------------------------------------------------------
(* The input tree.  A file is a path below the root, as its sequence of    *)
(* segments; a tree is a function from the indices of some Paths to the    *)
(* index of the file's content in Contents.                                *)

Paths == <<
    <<<<"C", "l", "o", "u", "d", "f", "l", "a", "r", "e">>, <<"r", "u", "l", "e", "A">>, <<"a", ".", "y", "m", "l">>>>,
    <<<<"C", "l", "o", "u", "d", "f", "l", "a", "r", "e">>, <<"r", "u", "l", "e", "A">>, <<"b", ".", "y", "a", "m", "l">>>>,
    <<<<"C", "l", "o", "u", "d", "f", "l", "a", "r", "e">>, <<"r", "u", "l", "e", "B">>, <<"c", ".", "Y", "M", "L">>>>,
    <<<<"c", "l", "o", "u", "d", "_", "f", "l", "a", "r", "e">>, <<"r", "u", "l", "e", "C">>, <<"d", ".", "y", "m", "l">>>>,
    <<<<"D", "a", "t", "a", " ", "d", "o", "g">>, <<"e", ".", "y", "m", "l">>>>,
    <<<<"N", "e", "t", "c", "r", "a", "f", "t">>, <<"r", "u", "l", "e", "D">>, <<"f", ".", "y", "m", "l">>>>,
    <<<<"O", "k", "t", "a">>, <<"C", "l", "o", "u", "d", "f", "l", "a", "r", "e">>, <<"r", "u", "l", "e", "A">>, <<"a", ".", "y", "m", "l">>>>,
    <<<<"t", "o", "p", ".", "y", "m", "l">>>>,
    <<<<"C", "l", "o", "u", "d", "f", "l", "a", "r", "e">>, <<"t", "e", "s", "t", "s">>, <<"g", ".", "y", "m", "l">>>>,
    <<<<"C", "l", "o", "u", "d", "f", "l", "a", "r", "e">>, <<"r", "u", "l", "e", "A">>, <<"n", "o", "t", "e", "s", ".", "t", "x", "t">>>>
>>

\* The most files a tree of the model holds.
MaxFiles == 6

\* File i of a tree drawn with shift k holds Contents[ContentOf(i, k)].
ContentOf(i, k) == ((i - 1 + k) % Len(Contents)) + 1

\* The sets of files a tree can hold.
FileSets == {T \in SUBSET (1..Len(Paths)) : Cardinality(T) <= MaxFiles}

Trees == {[i \in S |-> ContentOf(i, k)] : S \in FileSets, k \in 0..(Len(Contents) - 1)}

\* The arguments of main: the root as given, and the process's working directory.
repo_root == <<"d", "e", "t", "e", "c", "t", "i", "o", "n", "s">>
cwd == <<"/", "r", "e", "p", "o">>
layer_name == "Coverage"

EXCLUDE_DIRS == {
    <<".", "g", "i", "t">>, <<".", "g", "i", "t", "h", "u", "b">>, <<".", "c", "o", "d", "e", "b", "u", "i", "l", "d">>, <<".", "c", "u", "r", "s", "o", "r">>, <<".", "h", "o", "o", "k", "s">>, <<".", "h", "o", "o", "k", "s", "_", "s", "c", "r", "i", "p", "t", "s">>,
    <<"_", "_", "p", "y", "c", "a", "c", "h", "e", "_", "_">>, <<".", "v", "e", "n", "v">>, <<"v", "e", "n", "v">>, <<"n", "o", "d", "e", "_", "m", "o", "d", "u", "l", "e", "s">>, <<"d", "i", "s", "t">>, <<"b", "u", "i", "l", "d">>,
    <<"d", "o", "c", "s">>, <<"i", "n", "f", "r", "a">>, <<"t", "e", "m", "p", "l", "a", "t", "e", "s">>, <<"t", "e", "s", "t", "s">>,
    <<"g", "l", "o", "b", "a", "l", "_", "h", "e", "l", "p", "e", "r", "s">>, <<"p", "r", "o", "c", "e", "d", "u", "r", "e", "s">>, <<"s", "c", "h", "e", "m", "a", "s">>, <<"s", "i", "g", "n", "a", "l", "s">>, <<"w", "a", "t", "c", "h", "d", "o", "g", "s">> }

NETWORK_PLATFORMS == {<<"C", "l", "o", "u", "d", "f", "l", "a", "r", "e">>, <<"N", "e", "t", "c", "r", "a", "f", "t">>, <<"D", "a", "t", "a", "d", "o", "g">>}

----------------------------------------------------------------------------
(* os.path on POSIX paths.                                                 *)

sep == <<"/">>

\* os.path.isabs
isabs(p) == p # <<>> /\ p[1] = "/"

\* os.path.join(a, b): an absolute b replaces a; the separator is added unless
\* a is empty or already ends with it.
path_join(a, b) ==
    IF isabs(b) THEN b
    ELSE IF a = <<>> \/ a[Len(a)] = "/" THEN a \o b
    ELSE a \o sep \o b

\* Index of the last "/" of p, 0 if there is none.
LastSep(p) ==
    LET at == {i \in 1..Len(p) : p[i] = "/"}
    IN IF at = {} THEN 0 ELSE CHOOSE i \in at : \A j \in at : j <= i

basename(p) == SubSeq(p, LastSep(p) + 1, Len(p))

RECURSIVE rstrip_sep(_)
rstrip_sep(p) == IF p # <<>> /\ p[Len(p)] = "/" THEN rstrip_sep(SubSeq(p, 1, Len(p) - 1)) ELSE p

dirname(p) ==
    LET head == SubSeq(p, 1, LastSep(p))
    IN IF head # <<>> /\ \E i \in 1..Len(head) : head[i] # "/" THEN rstrip_sep(head) ELSE head

\* str.split("/")
RECURSIVE split(_)
split(s) ==
    LET at == {i \in 1..Len(s) : s[i] = "/"}
    IN IF at = {} THEN <<s>>
       ELSE LET i == CHOOSE k \in at : \A j \in at : k <= j
            IN <<SubSeq(s, 1, i - 1)>> \o split(SubSeq(s, i + 1, Len(s)))

\* os.path.normpath, the loop over the components: "" and "." are dropped and
\* ".." removes the component before it, if there is one to remove.
RECURSIVE norm_comps(_, _, _)
norm_comps(comps, acc, initial_slashes) ==
    IF comps = <<>> THEN acc
    ELSE LET comp == Head(comps)
         IN IF comp = <<>> \/ comp = <<".">>
            THEN norm_comps(Tail(comps), acc, initial_slashes)
            ELSE IF \/ comp # <<".", ".">>
                    \/ (initial_slashes = 0 /\ acc = <<>>)
                    \/ (acc # <<>> /\ acc[Len(acc)] = <<".", ".">>)
            THEN norm_comps(Tail(comps), Append(acc, comp), initial_slashes)
            ELSE IF acc # <<>>
            THEN norm_comps(Tail(comps), SubSeq(acc, 1, Len(acc) - 1), initial_slashes)
            ELSE norm_comps(Tail(comps), acc, initial_slashes)

\* os.path.normpath
normpath(path) ==
    IF path = <<>> THEN <<".">>
    ELSE LET initial_slashes ==
                 IF ~isabs(path) THEN 0
                 ELSE IF Len(path) >= 2 /\ path[2] = "/" /\ ~(Len(path) >= 3 /\ path[3] = "/") THEN 2
                 ELSE 1
             body == join(sep, norm_comps(split(path), <<>>, initial_slashes))
             out == (IF initial_slashes = 2 THEN <<"/", "/">> ELSE IF initial_slashes = 1 THEN sep ELSE <<>>) \o body
         IN IF out = <<>> THEN <<".">> ELSE out

\* os.path.abspath: normpath(join(os.getcwd(), path)).
abspath(p) == normpath(IF isabs(p) THEN p ELSE path_join(cwd, p))

\* The components of a path that are not empty.
comps_of(p) == SelectSeq(split(p), LAMBDA x : x # <<>>)

\* os.path.relpath(path, start)
relpath(path, start) ==
    LET start_list == comps_of(abspath(start))
        path_list == comps_of(abspath(path))
        shorter == IF Len(start_list) < Len(path_list) THEN Len(start_list) ELSE Len(path_list)
        same == {n \in 0..shorter : \A k \in 1..n : start_list[k] = path_list[k]}
        i == CHOOSE n \in same : \A m \in same : m <= n
        rel_list == [k \in 1..(Len(start_list) - i) |-> <<".", ".">>] \o SubSeq(path_list, i + 1, Len(path_list))
    IN IF rel_list = <<>> THEN <<".">> ELSE join(sep, rel_list)

----------------------------------------------------------------------------
(* os.walk over a tree, top down.  A directory is its sequence of segments *)
(* below the root.  The entries of a directory come in the order os.scandir *)
(* reports them, which the file system decides: any order is possible.     *)

IsPrefix(D, p) == Len(D) <= Len(p) /\ SubSeq(p, 1, Len(D)) = D

\* Names of the subdirectories and indices of the files of directory D, in a
\* tree that holds the files S.
subdirs(S, D) == {Paths[f][Len(D) + 1] : f \in {g \in S : IsPrefix(D, Paths[g]) /\ Len(Paths[g]) > Len(D) + 1}}
files_in(S, D) == {f \in S : IsPrefix(D, Paths[f]) /\ Len(Paths[f]) = Len(D) + 1}

\* The listings os.scandir can give of a set of entries: every order of them.
RECURSIVE scandir(_)
scandir(S) ==
    IF S = {} THEN {<<>>}
    ELSE UNION {{<<x>> \o rest : rest \in scandir(S \ {x})} : x \in S}

\* dirpath as os.walk reports it for directory D below top.
RECURSIVE dirpath(_, _)
dirpath(top, D) == IF D = <<>> THEN top ELSE path_join(dirpath(top, SubSeq(D, 1, Len(D) - 1)), D[Len(D)])

\* The path of file f as the enumerator records it.
file_path(top, f) == path_join(dirpath(top, SubSeq(Paths[f], 1, Len(Paths[f]) - 1)), Paths[f][Len(Paths[f])])

\* A faulty prune: no directory name is excluded.
prune_nothing(dirnames) == dirnames

\* dirnames[:] = [d for d in dirnames if d not in EXCLUDE_DIRS]
prune(dirnames) == SelectSeq(dirnames, LAMBDA d : d \notin EXCLUDE_DIRS)

\* fn.lower().endswith((".yml", ".yaml"))
is_yaml(fn) == endswith(lower(fn), <<".", "y", "m", "l">>) \/ endswith(lower(fn), <<".", "y", "a", "m", "l">>)

\* The directories of the model's paths, and for each file and directory what
\* the enumerators compute from its name: computed once.
Dirs == UNION {{SubSeq(Paths[f], 1, n) : n \in 0..(Len(Paths[f]) - 1)} : f \in 1..Len(Paths)}
yaml_named == {f \in 1..Len(Paths) : is_yaml(Paths[f][Len(Paths[f])])}

\* generate_layers.py, one iteration of the os.walk loop: the files appended,
\* filenames being the listing of the directory's files.
GL_collect(filenames) == SelectSeq(filenames, LAMBDA f : f \in yaml_named)

\* network_layer.py: the platform of a directory, its first segment below the
\* root lowercased with "_" and " " removed.
platform_of(top, D) ==
    LET parts == split(relpath(dirpath(top, D), top))
    IN remove_char(remove_char(lower(parts[1]), "_"), " ")

allowed_platforms == {lower(p) : p \in NETWORK_PLATFORMS}

NL_platform == [D \in Dirs |-> platform_of(abspath(repo_root), D)]

\* A faulty NL_collect: a platform name anywhere in the path is accepted.
NL_collect_any_segment(D, filenames) ==
    IF \A i \in 1..Len(D) : remove_char(remove_char(lower(D[i]), "_"), " ") \notin allowed_platforms
    THEN <<>>
    ELSE SelectSeq(filenames, LAMBDA f : f \in yaml_named)

\* network_layer.py, one iteration of the os.walk loop: the files appended.
NL_collect(D, filenames) ==
    IF NL_platform[D] \notin allowed_platforms THEN <<>>
    ELSE SelectSeq(filenames, LAMBDA f : f \in yaml_named)

\* The directories os.walk descends into from D, dirnames being what the loop
\* body left of the listing of D's subdirectories.
descend(D, dirnames) == [i \in 1..Len(dirnames) |-> D \o <<dirnames[i]>>]

\* os.walk from directory D of a tree that holds the files S, in variant v:
\* the directories reported and the files appended to results, in order, for
\* every listing order.
RECURSIVE walk(_, _, _)
RECURSIVE walk_each(_, _, _)
walk(v, S, D) ==
    UNION {
        {[visited |-> <<D>> \o below.visited,
          results |-> (IF v = "all" THEN GL_collect(filenames) ELSE NL_collect(D, filenames)) \o below.results] :
            below \in walk_each(v, S, descend(D, prune(dirnames)))} :
        dirnames \in scandir(subdirs(S, D)), filenames \in scandir(files_in(S, D))}

walk_each(v, S, dirs) ==
    IF dirs = <<>> THEN {[visited |-> <<>>, results |-> <<>>]}
    ELSE {[visited |-> first.visited \o rest.visited, results |-> first.results \o rest.results] :
            first \in walk(v, S, Head(dirs)), rest \in walk_each(v, S, Tail(dirs))}

----------------------------------------------------------------------------
(* The aggregation of main.  A defaultdict is a function from the keys it  *)
(* holds; reading a missing key gives the default.                         *)

dget(f, k, default) == IF k \in DOMAIN f THEN f[k] ELSE default
dset(f, k, val) == [x \in DOMAIN f \cup {k} |-> IF x = k THEN val ELSE f[x]]

\* A faulty inc_count: the count is assigned, not incremented.
inc_count_assign(cnt, tid) == dset(cnt, tid, 1)

\* counts[tid] += 1
inc_count(cnt, tid) == dset(cnt, tid, dget(cnt, tid, 0) + 1)

\* A faulty add_example: the cap is compared with <=.
add_example_offbyone(ex, tid, label) ==
    IF Len(dget(ex, tid, <<>>)) <= MaxExamples
    THEN dset(ex, tid, Append(dget(ex, tid, <<>>), label))
    ELSE dset(ex, tid, dget(ex, tid, <<>>))

\* if len(examples[tid]) < 5: examples[tid].append(label)
add_example(ex, tid, label) ==
    IF Len(dget(ex, tid, <<>>)) < MaxExamples
    THEN dset(ex, tid, Append(dget(ex, tid, <<>>), label))
    ELSE dset(ex, tid, dget(ex, tid, <<>>))

\* A faulty update_best: an equal score replaces the pair too.
update_best_ge(best, tid, score, sev) ==
    IF score >= dget(best.max_score, tid, 0)
    THEN [max_score |-> dset(best.max_score, tid, score), max_sev |-> dset(best.max_sev, tid, sev)]
    ELSE [max_score |-> dset(best.max_score, tid, dget(best.max_score, tid, 0)), max_sev |-> best.max_sev]

\* if score > max_score[tid]: the pair (max_score[tid], max_sev[tid]) is replaced.
\* best holds the two dictionaries.
update_best(best, tid, score, sev) ==
    IF score > dget(best.max_score, tid, 0)
    THEN [max_score |-> dset(best.max_score, tid, score), max_sev |-> dset(best.max_sev, tid, sev)]
    ELSE [max_score |-> dset(best.max_score, tid, dget(best.max_score, tid, 0)), max_sev |-> best.max_sev]

\* for tid in techs: the body of the inner loop, folded over the list.
RECURSIVE aggregate(_, _, _, _, _)
aggregate(acc, techs, score, sev, label) ==
    IF techs = <<>> THEN acc
    ELSE LET tid == Head(techs)
             best == update_best([max_score |-> acc.max_score, max_sev |-> acc.max_sev], tid, score, sev)
         IN aggregate([counts |-> inc_count(acc.counts, tid),
                       examples |-> add_example(acc.examples, tid, label),
                       max_score |-> best.max_score,
                       max_sev |-> best.max_sev],
                      Tail(techs), score, sev, label)

\* f"{det_name}/{file_name}"
example_label(ypath) == basename(dirname(ypath)) \o <<"/">> \o basename(ypath)

\* f"detections={count}; max_sev={sev}; examples={', '.join(examples)}"
comment_of(count, sev, ex) ==
    <<"d", "e", "t", "e", "c", "t", "i", "o", "n", "s", "=">> \o str(count) \o <<";", " ", "m", "a", "x", "_", "s", "e", "v", "=">> \o sev \o <<";", " ", "e", "x", "a", "m", "p", "l", "e", "s", "=">> \o join(<<",", " ">>, ex)

\* technique_info / technique_data of main, for the keys of counts.
technique_info(cnt, best_score, best_sev, ex) ==
    [tid \in DOMAIN cnt |->
        [score |-> dget(best_score, tid, 0),
         max_severity |-> dget(best_sev, tid, <<"u", "n", "k", "n", "o", "w", "n">>),
         count |-> cnt[tid],
         comment |-> comment_of(cnt[tid], dget(best_sev, tid, <<"u", "n", "k", "n", "o", "w", "n">>), dget(ex, tid, <<>>))]]

GL_description == "Auto-generated from detection YAML files in repo (technique + severity)."
NL_description == "Auto-generated network-only ATT&CK coverage from Rippling detections."

build_layer(name, description, info) ==
    LET tids == sorted(DOMAIN info)
    IN [name |-> name,
        domain |-> "enterprise-attack",
        description |-> description,
        gradient |-> [minValue |-> 0, maxValue |-> 100],
        layout |-> [layout |-> "side"],
        hideDisabled |-> FALSE,
        techniques |->
            [i \in 1..Len(tids) |->
                [techniqueID |-> tids[i],
                 score |-> info[tids[i]].score,
                 comment |-> info[tids[i]].comment,
                 metadata |-> << [name |-> "detections_count", value |-> str(info[tids[i]].count)],
                                 [name |-> "max_severity", value |-> info[tids[i]].max_severity] >>]]]

----------------------------------------------------------------------------
(* The run of main as a state machine.                                     *)

VARIABLES
    variant,        \* "all": generate_layers.py, "network": network_layer.py
    tree,           \* the input tree under the root
    pc,             \* "walk", "enumerated", "loop", "write", "done", "exit", "traceback"
    visited,        \* directories os.walk has reported
    yaml_files,     \* sorted(results)
    idx,            \* files of yaml_files the loop has processed
    read_files,     \* files read_yaml has opened
    max_score, max_sev, counts, examples,
    parsed_files, skipped_no_technique,
    layer,          \* the artifact built, None before
    out_dir,        \* the output directory exists
    out_file,       \* the content of the output file, None while absent
    stdout,         \* the numbers printed: parsed, skipped, techniques
    ex_d, ex_raw,   \* the arguments of a call of get_techniques on its own
    ex_out          \* and its result, None before the call

vars == <<variant, tree, pc, visited, yaml_files, idx, read_files,
          max_score, max_sev, counts, examples, parsed_files, skipped_no_technique,
          layer, out_dir, out_file, stdout, ex_d, ex_raw, ex_out>>

Variants == {"all", "network"}

\* The path strings of the files under either root, and for each content
\* whether read_yaml returns and what the extractor then finds: computed once.
GL_paths == [f \in 1..Len(Paths) |-> file_path(repo_root, f)]
NL_paths == [f \in 1..Len(Paths) |-> file_path(abspath(repo_root), f)]
extracted ==
    [c \in 1..Len(Contents) |->
        LET r == read_yaml(Contents[c])
        IN IF r.t = "error" THEN [read |-> FALSE, sev |-> <<>>, techs |-> <<>>]
           ELSE [read |-> TRUE, sev |-> get_severity(r.obj), techs |-> get_techniques(r.obj, r.raw)]]

GL_labels == [f \in 1..Len(Paths) |-> example_label(GL_paths[f])]
NL_labels == [f \in 1..Len(Paths) |-> example_label(NL_paths[f])]

file_label(f) == IF variant = "all" THEN GL_labels[f] ELSE NL_labels[f]

\* Whether the path string of file f sorts before that of file g: computed once.
GL_before == [f \in 1..Len(Paths), g \in 1..Len(Paths) |-> StrLess(GL_paths[f], GL_paths[g])] @@ <<>>
NL_before == [f \in 1..Len(Paths), g \in 1..Len(Paths) |-> StrLess(NL_paths[f], NL_paths[g])] @@ <<>>

\* sorted(results): by the path strings, before giving their order.
RECURSIVE sorted_paths(_, _)
sorted_paths(before, S) ==
    IF S = {} THEN <<>>
    ELSE LET m == CHOOSE f \in S : \A g \in S : f = g \/ before[f, g]
         IN <<m>> \o sorted_paths(before, S \ {m})

Init ==
    /\ variant \in Variants
    /\ tree \in Trees
    /\ pc = "walk"
    /\ visited = {}
    /\ yaml_files = <<>>
    /\ idx = 0
    /\ read_files = {}
    /\ max_score = <<>>
    /\ max_sev = <<>>
    /\ counts = <<>>
    /\ examples = <<>>
    /\ parsed_files = 0
    /\ skipped_no_technique = 0
    /\ layer = None
    /\ out_dir = FALSE
    /\ out_file = None
    /\ stdout = <<>>
    /\ ex_d = None
    /\ ex_raw = <<>>
    /\ ex_out = None

aggregates == <<max_score, max_sev, counts, examples, parsed_files, skipped_no_technique>>
outputs == <<layer, out_dir, out_file, stdout>>
extraction == <<ex_d, ex_raw, ex_out>>

\* iter_yaml_files(root) in variant v on a tree that holds the files S: what
\* the call can return, sorted(results), with the directories os.walk reported
\* on the way, for every listing order.  Computed once.
iter_yaml_files ==
    [v \in Variants, S \in FileSets |->
        {[files |-> sorted_paths(IF v = "all" THEN GL_before ELSE NL_before, Range(w.results)),
          visited |-> Range(w.visited)] : w \in walk(v, S, <<>>)}] @@ <<>>

\* yaml_files = iter_yaml_files(repo_root)
Enumerate ==
    /\ pc = "walk"
    /\ \E out \in iter_yaml_files[variant, DOMAIN tree] :
          /\ yaml_files' = out.files
          /\ visited' = out.visited
    /\ pc' = "enumerated"
    /\ UNCHANGED <<variant, tree, idx, read_files, aggregates, outputs, extraction>>

\* A faulty NoInput: the empty list is not checked and the run goes on.
NoInput_proceeds ==
    /\ pc = "enumerated"
    /\ yaml_files = <<>>
    /\ pc' = "loop"
    /\ UNCHANGED <<variant, tree, visited, yaml_files, idx, read_files,
                   aggregates, outputs, extraction>>

\* if not yaml_files: raise SystemExit(...)
NoInput ==
    /\ pc = "enumerated"
    /\ yaml_files = <<>>
    /\ pc' = "exit"
    /\ UNCHANGED <<variant, tree, visited, yaml_files, idx, read_files,
                   aggregates, outputs, extraction>>

\* The list is not empty: the dictionaries and tallies of main are set up.
StartLoop ==
    /\ pc = "enumerated"
    /\ yaml_files # <<>>
    /\ pc' = "loop"
    /\ UNCHANGED <<variant, tree, visited, yaml_files, idx, read_files,
                   aggregates, outputs, extraction>>

\* One iteration of "for ypath in yaml_files" for a file read_yaml cannot read:
\* the exception leaves main, and the run ends with nothing written.
ReadFails ==
    /\ pc = "loop"
    /\ idx < Len(yaml_files)
    /\ LET f == yaml_files[idx + 1]
       IN /\ ~extracted[tree[f]].read
          /\ read_files' = read_files \cup {f}
    /\ pc' = "traceback"
    /\ UNCHANGED <<variant, tree, visited, yaml_files, idx, aggregates, outputs, extraction>>

\* A faulty SkipFile: the file is passed over without being counted.
SkipFile_uncounted ==
    /\ pc = "loop"
    /\ idx < Len(yaml_files)
    /\ LET f == yaml_files[idx + 1]
       IN /\ extracted[tree[f]].read
          /\ extracted[tree[f]].techs = <<>>
          /\ read_files' = read_files \cup {f}
    /\ idx' = idx + 1
    /\ UNCHANGED <<variant, tree, pc, visited, yaml_files,
                   aggregates, outputs, extraction>>

\* One iteration of "for ypath in yaml_files" for a file without a technique.
SkipFile ==
    /\ pc = "loop"
    /\ idx < Len(yaml_files)
    /\ LET f == yaml_files[idx + 1]
       IN /\ extracted[tree[f]].read
          /\ extracted[tree[f]].techs = <<>>
          /\ read_files' = read_files \cup {f}
    /\ skipped_no_technique' = skipped_no_technique + 1
    /\ idx' = idx + 1
    /\ UNCHANGED <<variant, tree, pc, visited, yaml_files,
                   max_score, max_sev, counts, examples, parsed_files, outputs, extraction>>

\* One iteration of "for ypath in yaml_files" for a file with techniques.
AggregateFile ==
    /\ pc = "loop"
    /\ idx < Len(yaml_files)
    /\ LET f == yaml_files[idx + 1]
           sev == extracted[tree[f]].sev
           techs == extracted[tree[f]].techs
           score == IF variant = "all" THEN severity_score(sev) ELSE severity_to_score(sev)
           acc == aggregate([counts |-> counts, examples |-> examples,
                             max_score |-> max_score, max_sev |-> max_sev],
                            techs, score, sev, file_label(f))
       IN /\ extracted[tree[f]].read
          /\ techs # <<>>
          /\ read_files' = read_files \cup {f}
          /\ counts' = acc.counts
          /\ examples' = acc.examples
          /\ max_score' = acc.max_score
          /\ max_sev' = acc.max_sev
    /\ parsed_files' = parsed_files + 1
    /\ idx' = idx + 1
    /\ UNCHANGED <<variant, tree, pc, visited, yaml_files,
                   skipped_no_technique, outputs, extraction>>

\* After the loop: technique_info and build_layer.
BuildLayer ==
    /\ pc = "loop"
    /\ idx = Len(yaml_files)
    /\ layer' = build_layer(layer_name,
                            IF variant = "all" THEN GL_description ELSE NL_description,
                            technique_info(counts, max_score, max_sev, examples))
    /\ pc' = "write"
    /\ UNCHANGED <<variant, tree, visited, yaml_files, idx, read_files,
                   aggregates, out_dir, out_file, stdout, extraction>>

\* os.makedirs, json.dump and the four prints.
WriteLayer ==
    /\ pc = "write"
    /\ out_dir' = TRUE
    /\ out_file' = layer
    /\ stdout' = <<parsed_files, skipped_no_technique, Len(layer.techniques)>>
    /\ pc' = "done"
    /\ UNCHANGED <<variant, tree, visited, yaml_files, idx, read_files,
                   aggregates, layer, extraction>>

Next ==
    \/ Enumerate
    \/ NoInput
    \/ StartLoop
    \/ ReadFails
    \/ SkipFile
    \/ AggregateFile
    \/ BuildLayer
    \/ WriteLayer

Spec == Init /\ [][Next]_vars

----------------------------------------------------------------------------
(* get_techniques on its own: the arguments are drawn from the dictionaries *)
(* and texts below and the function is applied once.                       *)

ExtractDicts == <<
    None,
    Dict(<<>>),
    Dict([Severity |-> Str(<<"S", "e", "v", "1">>)]),
    Dict([MitreTechniques |-> Str(<<"T", "1", "0", "5", "9", ",", " ", "t", "1", "1", "1", "0", ".", "0", "0", "1", " ", "T", "1", "0", "5", "9">>)]),
    Dict([MitreTechniques |-> List(<<Str(<<"T", "1", "0", "0", "3", ".", "0", "0", "2">>), Num(7), Str(<<"t", "1", "0", "0", "3", " ", "T", "1", "0", "0", "3">>)>>)]),
    Dict([MitreTechniques |-> List(<<>>)]),
    Dict([MitreTechniques |-> Num(1059)]),
    Dict([MitreTechniques |-> List(<<Str(<<"e", "x", "e", "c", "u", "t", "i", "o", "n">>), Str(<<"T", "1", "0", "5", "9", "1">>)>>)]),
    Dict([MitreTechniques |-> None, Severity |-> Str(<<"S", "e", "v", "2">>)])
>>

ExtractTexts == <<
    <<>>,
    <<"n", "o", " ", "i", "d", "s", " ", "h", "e", "r", "e", " ", "T", "1", "0", "5">>,
    <<"T", "1", "0", "5", "9">>,
    <<"t", "1", "5", "6", "6", ".", "0", "0", "1", " ", "a", "n", "d", " ", "T", "1", "5", "6", "6", ".", "0", "0", "1", ",", " ", "T", "1", "5", "6", "6">>,
    <<"M", "i", "t", "r", "e", "T", "e", "c", "h", "n", "i", "q", "u", "e", "s", ":", " ", "[", "T", "1", "0", "5", "9", "]", "\n", "#", " ", "T", "1", "0", "2", "1", ".", "0", "0", "2">>,
    <<"x", "T", "1", "0", "5", "9", " ", "T", "1", "0", "5", "9", "x", " ", "_", "T", "1", "0", "5", "9", " ", "T", "1", "0", "5", "9", ".", "0", "0", "1", "2", " ", "T", "1", "1", "1", "0", ".", "0", "1">>,
    <<"T", "1", "0", "0", "3", " ", "T", "1", "0", "0", "3", ".", "0", "0", "2", " ", "T", "1", "0", "0", "3">>,
    <<"T", "2", "0", "0", "0", ".", "1", "2", "3", ".", "T", "3", "0", "0", "0">>
>>

InitExtract ==
    /\ variant = "all"
    /\ tree = <<>>
    /\ pc = "extract"
    /\ visited = {}
    /\ yaml_files = <<>>
    /\ idx = 0
    /\ read_files = {}
    /\ max_score = <<>>
    /\ max_sev = <<>>
    /\ counts = <<>>
    /\ examples = <<>>
    /\ parsed_files = 0
    /\ skipped_no_technique = 0
    /\ layer = None
    /\ out_dir = FALSE
    /\ out_file = None
    /\ stdout = <<>>
    /\ \E i \in 1..Len(ExtractDicts) : ex_d = ExtractDicts[i]
    /\ \E j \in 1..Len(ExtractTexts) : ex_raw = ExtractTexts[j]
    /\ ex_out = None

Extract ==
    /\ pc = "extract"
    /\ ex_out = None
    /\ ex_out' = [t |-> "list", v |-> get_techniques(ex_d, ex_raw)]
    /\ pc' = "returned"
    /\ UNCHANGED <<variant, tree, visited, yaml_files, idx, read_files,
                   aggregates, outputs, ex_d, ex_raw>>

NextExtract == Extract

SpecExtract == InitExtract /\ [][NextExtract]_vars

----------------------------------------------------------------------------
(* What the claims are stated in: the facts of the candidate files in      *)
(* processing order, as the extractor finds them.                          *)

techs_of(k) == extracted[tree[yaml_files[k]]].techs
sev_of(k) == extracted[tree[yaml_files[k]]].sev
label_of(k) == file_label(yaml_files[k])
score_of(k) == IF variant = "all" THEN severity_score(sev_of(k)) ELSE severity_to_score(sev_of(k))

\* The first n candidate files whose technique set holds tid.
Contributing(tid, n) == {k \in 1..n : tid \in Range(techs_of(k))}
AllTids == UNION {Range(techs_of(k)) : k \in 1..Len(yaml_files)}

Max(S) == CHOOSE x \in S : \A y \in S : y <= x
Min(S) == CHOOSE x \in S : \A y \in S : x <= y

RECURSIVE Ascending(_)
Ascending(S) == IF S = {} THEN <<>> ELSE <<Min(S)>> \o Ascending(S \ {Min(S)})

Entries == IF out_file = None THEN <<>> ELSE out_file.techniques
unknown == <<"u", "n", "k", "n", "o", "w", "n">>

\* The tier map of the specification: sev0..sev4 whatever the case, 50 otherwise.
TierScore(label) ==
    LET l == lower(label)
    IN CASE l = <<"s", "e", "v", "0">> -> 100
         [] l = <<"s", "e", "v", "1">> -> 90
         [] l = <<"s", "e", "v", "2">> -> 70
         [] l = <<"s", "e", "v", "3">> -> 40
         [] l = <<"s", "e", "v", "4">> -> 20
         [] OTHER -> 50

\* C1: in both variants every technique entry of the written artifact has for
\* score the maximum, over the candidate files whose technique set holds the ID,
\* of the tier-map score of the file's severity label (sev0..sev4 -> 100, 90, 70,
\* 40, 20, anything else -> 50).
C1_ScoreIsTierMax ==
    pc = "done" =>
        \A i \in 1..Len(Entries) :
            LET e == Entries[i]
                ks == Contributing(e.techniqueID, Len(yaml_files))
            IN ks # {} /\ e.score = Max({TierScore(sev_of(k)) : k \in ks})

----------------------------------------------------------------------------
\* The labels of the first five files, of the first n, that contribute tid.
FirstLabels(tid, n) ==
    LET ks == Ascending(Contributing(tid, n))
    IN [i \in 1..(IF Len(ks) < 5 THEN Len(ks) ELSE 5) |-> label_of(ks[i])]

C2_CapInv ==
    /\ \A tid \in DOMAIN examples :
          /\ Len(examples[tid]) <= 5
          /\ examples[tid] = FirstLabels(tid, idx)
    /\ pc = "done" =>
          \A i \in 1..Len(Entries) :
              endswith(Entries[i].comment,
                       <<";", " ", "e", "x", "a", "m", "p", "l", "e", "s", "=">> \o join(<<",", " ">>, FirstLabels(Entries[i].techniqueID, Len(yaml_files))))

C2_Stable ==
    \A tid \in DOMAIN examples :
        /\ tid \in DOMAIN examples'
        /\ Len(examples[tid]) <= Len(examples'[tid])
        /\ SubSeq(examples'[tid], 1, Len(examples[tid])) = examples[tid]

\* C2: after every step of the loop and in the artifact a technique's example
\* list holds at most 5 labels, namely the labels of the first 5 contributing
\* files in sorted file order, and a step never removes or replaces a recorded
\* example.
C2_ExampleCap == []C2_CapInv /\ [][C2_Stable]_vars

\* C2 witness: the run is over and a technique has more than 5 contributing
\* files, of which 5 are its examples.
C2_Witness ==
    /\ pc = "done"
    /\ \E tid \in DOMAIN counts :
          /\ Cardinality(Contributing(tid, Len(yaml_files))) > 5
          /\ Len(examples[tid]) = 5

----------------------------------------------------------------------------
AllowList == {<<"c", "l", "o", "u", "d", "f", "l", "a", "r", "e">>, <<"n", "e", "t", "c", "r", "a", "f", "t">>, <<"d", "a", "t", "a", "d", "o", "g">>}
Normalized(name) == remove_char(remove_char(lower(name), " "), "_")
UnderAllowedPlatform(f) == Len(Paths[f]) >= 2 /\ Normalized(Paths[f][1]) \in AllowList

\* C3: in the restricted variant every file that is enumerated, read or
\* aggregated lies under a first segment whose normalized name is in the
\* allow-list, and the counts, examples and best scores come from such files
\* alone.
C3_PlatformFilter ==
    variant = "network" =>
        /\ \A f \in Range(yaml_files) \cup read_files : UnderAllowedPlatform(f)
        /\ \A tid \in DOMAIN counts :
              LET inside == {k \in 1..idx : UnderAllowedPlatform(yaml_files[k]) /\ tid \in Range(techs_of(k))}
              IN /\ counts[tid] = Cardinality(inside)
                 /\ \A i \in 1..Len(examples[tid]) : \E k \in inside : examples[tid][i] = label_of(k)
                 /\ \E k \in inside : max_score[tid] = score_of(k) /\ max_sev[tid] = sev_of(k)
        /\ \A i \in 1..Len(Entries) : Entries[i].techniqueID \in DOMAIN counts

\* C3 witness: a restricted run is over, and the tree holds a rule file under a
\* segment outside the allow-list with a technique the artifact lacks, and a
\* rule file with techniques directly in the root.
C3_Witness ==
    /\ variant = "network"
    /\ pc = "done"
    /\ \E f \in DOMAIN tree :
          /\ Len(Paths[f]) >= 2
          /\ ~UnderAllowedPlatform(f)
          /\ \E tid \in Range(extracted[tree[f]].techs) : tid \notin DOMAIN counts
    /\ \E g \in DOMAIN tree : Len(Paths[g]) = 1 /\ extracted[tree[g]].techs # <<>>

----------------------------------------------------------------------------
\* C4: the count of a technique is the number of candidate files whose technique
\* set holds it, at least 1, whatever the number of occurrences in a file; the
\* artifact reports it as detections=<count> and as detections_count.
C4_CountIsContributingFiles ==
    /\ \A tid \in DOMAIN counts :
          counts[tid] = Cardinality(Contributing(tid, idx)) /\ counts[tid] >= 1
    /\ pc = "done" =>
          /\ {Entries[i].techniqueID : i \in 1..Len(Entries)} = AllTids
          /\ \A i \in 1..Len(Entries) :
                LET e == Entries[i]
                    n == Cardinality(Contributing(e.techniqueID, Len(yaml_files)))
                IN /\ n >= 1
                   /\ e.metadata[1].name = "detections_count"
                   /\ e.metadata[1].value = str(n)
                   /\ IsPrefix(<<"d", "e", "t", "e", "c", "t", "i", "o", "n", "s", "=">> \o str(n) \o <<";">>, e.comment)

\* C4 witness: the run is over, a candidate file named an ID twice, another had
\* no technique, and some technique has two contributing files.
C4_Witness ==
    /\ pc = "done"
    /\ skipped_no_technique > 0
    /\ \E k \in 1..Len(yaml_files) : tree[yaml_files[k]] = 3
    /\ \E tid \in DOMAIN counts : counts[tid] >= 2

----------------------------------------------------------------------------
C5_BestStep ==
    (pc = "loop" /\ idx' = idx + 1) =>
        \A tid \in AllTids :
            LET old_score == dget(max_score, tid, 0)
                old_sev == dget(max_sev, tid, unknown)
                new_score == dget(max_score', tid, 0)
                new_sev == dget(max_sev', tid, unknown)
            IN IF tid \in Range(techs_of(idx + 1)) /\ score_of(idx + 1) > old_score
               THEN new_score = score_of(idx + 1) /\ new_sev = sev_of(idx + 1)
               ELSE new_score = old_score /\ new_sev = old_sev

C5_FinalLabel ==
    pc = "done" =>
        \A i \in 1..Len(Entries) :
            LET e == Entries[i]
                winners == {k \in Contributing(e.techniqueID, Len(yaml_files)) : score_of(k) = e.score}
            IN /\ winners # {}
               /\ e.metadata[2].name = "max_severity"
               /\ e.metadata[2].value = sev_of(Min(winners))

\* C5: a file replaces a technique's (best score, best severity) exactly when
\* its score is strictly greater than the recorded one, so the artifact's
\* max_severity is the label of the earliest file that has the final score.
C5_FirstSeenWins == [][C5_BestStep]_vars /\ []C5_FinalLabel

\* C5 witness: the run is over and two contributing files of a technique have
\* its final score with different labels.
C5_Witness ==
    /\ pc = "done"
    /\ \E tid \in DOMAIN counts :
          \E k1, k2 \in Contributing(tid, Len(yaml_files)) :
              /\ k1 < k2
              /\ score_of(k1) = max_score[tid]
              /\ score_of(k2) = max_score[tid]
              /\ sev_of(k1) # sev_of(k2)

----------------------------------------------------------------------------
\* C6: parsed + skipped is the number of files processed so far, parsed counting
\* the files with a technique and skipped the others, and the report of a
\* finished run adds up to the number of candidate files.
C6_SkipAccounting ==
    /\ parsed_files + skipped_no_technique = idx
    /\ parsed_files = Cardinality({k \in 1..idx : techs_of(k) # <<>>})
    /\ skipped_no_technique = Cardinality({k \in 1..idx : techs_of(k) = <<>>})
    /\ pc = "done" =>
          /\ idx = Len(yaml_files)
          /\ stdout[1] = parsed_files
          /\ stdout[2] = skipped_no_technique
          /\ stdout[1] + stdout[2] = Len(yaml_files)

\* C6 witness: a finished run with files of both tallies.
C6_Witness == pc = "done" /\ parsed_files > 0 /\ skipped_no_technique > 0

----------------------------------------------------------------------------
\* C7: when the enumerator returns no candidate file the run exits at once:
\* nothing was read or aggregated, neither the output directory nor the output
\* file exists, and no step follows.
C7_NoInputStopsRun ==
    /\ (pc \in {"loop", "write", "done", "exit", "traceback"} /\ yaml_files = <<>>) => pc = "exit"
    /\ pc = "exit" =>
          /\ yaml_files = <<>>
          /\ read_files = {}
          /\ idx = 0
          /\ DOMAIN counts = {}
          /\ DOMAIN examples = {}
          /\ DOMAIN max_score = {}
          /\ parsed_files = 0
          /\ skipped_no_technique = 0
          /\ layer = None
          /\ ~out_dir
          /\ out_file = None
          /\ stdout = <<>>
          /\ ~ENABLED Next

\* C7 witness: a run has exited although the tree holds rule files with
\* techniques (excluded, or outside the allow-list).
C7_Witness ==
    /\ pc = "exit"
    /\ \E f \in DOMAIN tree :
          is_yaml(Paths[f][Len(Paths[f])]) /\ extracted[tree[f]].techs # <<>>

----------------------------------------------------------------------------
\* A file that does not load as a mapping: its bytes are not text at all, the
\* load raises, or the load gives something other than a dict.
Malformed(f) == ~Contents[tree[f]].utf8 \/ Contents[tree[f]].loaded.t # "dict"
RawIds(f) == Range(scan_raw(Contents[tree[f]].raw))

C8_MalformedStep ==
    (pc = "loop" /\ idx < Len(yaml_files) /\ Malformed(yaml_files[idx + 1])) =>
        LET f == yaml_files[idx + 1]
            ids == RawIds(f)
        IN /\ pc' = "loop"
           /\ idx' = idx + 1
           /\ f \in read_files'
           /\ IF ids = {}
              THEN /\ skipped_no_technique' = skipped_no_technique + 1
                   /\ parsed_files' = parsed_files
                   /\ UNCHANGED <<counts, examples, max_score, max_sev>>
              ELSE /\ parsed_files' = parsed_files + 1
                   /\ skipped_no_technique' = skipped_no_technique
                   /\ DOMAIN counts' = DOMAIN counts \cup ids
                   /\ \A tid \in DOMAIN counts' :
                         counts'[tid] = dget(counts, tid, 0) + (IF tid \in ids THEN 1 ELSE 0)
                   /\ \A tid \in ids :
                         IF dget(max_score, tid, 0) < 50
                         THEN max_score'[tid] = 50 /\ max_sev'[tid] = unknown
                         ELSE max_score'[tid] = max_score[tid] /\ max_sev'[tid] = max_sev[tid]

C8_AllProcessed ==
    /\ pc # "traceback"
    /\ pc \in {"write", "done"} => read_files = Range(yaml_files)

\* C8: a file that does not load as a mapping never stops the run: it counts
\* with severity "unknown" (score 50) for the IDs of its raw text, as parsed if
\* there are any and as skipped if not, and the files after it are processed.
\* The code breaks it: read_yaml reads the file outside its try, so a file
\* whose bytes are not UTF-8 ends the run with an exception.
C8_MalformedRecovered == [][C8_MalformedStep]_vars /\ []C8_AllProcessed

----------------------------------------------------------------------------
\* The IDs of a str, or of the str items of a list.
IdsOfValue(value) ==
    CASE value.t = "str" -> {upper(m) : m \in Range(findall(value.v))}
      [] value.t = "list" ->
            UNION {IF value.v[i].t = "str"
                   THEN {upper(m) : m \in Range(findall(value.v[i].v))}
                   ELSE {} : i \in 1..Len(value.v)}
      [] OTHER -> {}

FieldIds(d) ==
    IF d.t = "dict" /\ "MitreTechniques" \in DOMAIN d.v
    THEN IdsOfValue(d.v["MitreTechniques"])
    ELSE {}

\* C9: get_techniques returns the IDs of the MitreTechniques field when the
\* field yields at least one, and the IDs of the whole raw text in every other
\* case; the result is uppercase, duplicate-free and sorted.
C9_TwoTiers ==
    ex_out # None =>
        LET out == ex_out.v
            expected == IF FieldIds(ex_d) # {} THEN FieldIds(ex_d) ELSE IdsOfValue(Str(ex_raw))
        IN /\ Range(out) = expected
           /\ \A i \in 1..(Len(out) - 1) : StrLess(out[i], out[i + 1])
           /\ \A i \in 1..Len(out) : upper(out[i]) = out[i]

\* C9 witness: get_techniques has returned for a field that yields IDs and a
\* raw text that holds an ID the field lacks.
C9_Witness ==
    /\ ex_out # None
    /\ FieldIds(ex_d) # {}
    /\ IdsOfValue(Str(ex_raw)) \ FieldIds(ex_d) # {}

----------------------------------------------------------------------------
\* C10 as stated: in the restricted variant the walk visits only the root and
\* directories under a first segment of the allow-list.
C10_PrunedBeforeDescending ==
    variant = "network" =>
        \A D \in visited : D = <<>> \/ Normalized(D[1]) \in AllowList

HasExcluded(D) == \E i \in 1..Len(D) : D[i] \in EXCLUDE_DIRS
TreeDirs == {<<>>} \cup UNION {{SubSeq(Paths[f], 1, n) : n \in 0..(Len(Paths[f]) - 1)} : f \in DOMAIN tree}

\* C10 amended: in the restricted variant the walk prunes the excluded
\* directory names only: it visits every other directory of the tree, those
\* outside the allow-list too, and collects files under the allow-list alone.
C10_VisitsButCollectsNothing ==
    variant = "network" =>
        /\ \A f \in Range(yaml_files) : UnderAllowedPlatform(f)
        /\ \A D \in visited : ~HasExcluded(D)
        /\ pc \in {"enumerated", "loop", "write", "done", "exit", "traceback"} => visited = {D \in TreeDirs : ~HasExcluded(D)}

\* C10 witness: the restricted walk is over and has visited a directory below a
\* segment outside the allow-list, whose rule file it did not collect.
C10_Witness ==
    /\ variant = "network"
    /\ pc \in {"enumerated", "loop", "write", "done", "exit", "traceback"}
    /\ \E D \in visited :
          /\ Len(D) >= 2
          /\ Normalized(D[1]) \notin AllowList
          /\ \E f \in files_in(DOMAIN tree, D) : is_yaml(Paths[f][Len(Paths[f])]) /\ f \notin Range(yaml_files)

====
